---- MODULE Spec2Model ----
(***************************************************************************)
(* Model of the chain-code compressor of src/src/main.rs: the frequency    *)
(* ranker (count_frequencies), the chain tree (HuffmanTree::from_sorted),  *)
(* the code table (build_map), the bit packer (Encoded::from_bits), the    *)
(* container codec (to_bytes / from_bytes) and the decoder                 *)
(* (Encoded::decode).  Every function of the source is an operator that    *)
(* computes what the Rust code computes, a panic included; the actions     *)
(* are the statements of `encode` and `decode` (lines 151-159).            *)
(***************************************************************************)
EXTENDS Integers, Sequences, FiniteSets, TLC

VARIABLES pc, data, sorted, tree, map, enc, wire, parsed, out, current, fault, prev, bits

vars == <<pc, data, sorted, tree, map, enc, wire, parsed, out, current, fault, prev, bits>>

----------------------------------------------------------------------------
(* Program constants and bounds *)

\* u8: `bytes.len() as u8` keeps the length modulo 256
ByteMod == 256
\* bits in a byte: bits.chunks(8), bytes.len() * 8
ByteBits == 8

\* number of byte values the enumerated buffers draw from (97, 98, ...)
NumSyms == 3
\* longest enumerated buffer
MaxLen == 4
\* largest key set whose every iteration order is enumerated
MaxPermKeys == 3
\* longest bit sequence handed to from_bits on its own
MaxBits == 10
\* longest packed data / raw container of the codec specification
MaxData == 2
MaxWire == 4

Alphabet == 97..(97 + NumSyms - 1)

Min(a, b) == IF a < b THEN a ELSE b

RECURSIVE Pow2(_)
Pow2(k) == IF k = 0 THEN 1 ELSE 2 * Pow2(k - 1)

SeqsUpTo(S, n) == UNION {[1..k -> S] : k \in 0..n}

Range(s) == {s[i] : i \in 1..Len(s)}

Injective(s) == \A i, j \in 1..Len(s) : i # j => s[i] # s[j]

\* for i in lo..=hi { s = Body(s, i) }.  The range is split in halves (and the
\* first half evaluated before the second starts) so that a loop of 256 rounds
\* nests 8 deep.
RECURSIVE For(_, _, _, _)
For(Body(_, _), s, lo, hi) ==
    IF lo > hi THEN s
    ELSE IF lo = hi THEN Body(s, lo)
    ELSE LET mid == (lo + hi) \div 2
             half == For(Body, s, lo, mid)
         IN IF {half} # {} THEN For(Body, half, mid + 1, hi) ELSE s

\* loop { s = Body(s, _) } until s.done: rounds are run in blocks of 1, 2, 4, ...
\* (Body leaves a state that is done as it is)
RECURSIVE Loop(_, _, _)
Loop(Body(_, _), s, n) ==
    IF s.done THEN s
    ELSE LET t == For(Body, s, 1, n)
         IN IF {t} # {} THEN Loop(Body, t, 2 * n) ELSE s

\* a panic (index out of range, expect, arithmetic overflow): the function
\* returns nothing and the thread unwinds
Panic(msg) == [panic |-> msg]
IsPanic(v) == "panic" \in DOMAIN v

OOB == "index out of bounds"
SliceOOB == "range end index out of range for slice"
SubOverflow == "attempt to subtract with overflow"
NotInTree == "byte not in tree"

----------------------------------------------------------------------------
(* count_frequencies, lines 165-173 *)

\* map.insert(k, v) of a HashMap
Insert(m, k, v) == (k :> v) @@ m

EmptyMap == <<>>

\* freq: the HashMap of occurrence counts, lines 166-169
Freq(buf) ==
    LET Count(m, i) ==
            Insert(m, buf[i], IF buf[i] \in DOMAIN m THEN m[buf[i]] + 1 ELSE 1)
    IN For(Count, EmptyMap, 1, Len(buf))

\* the elements of a set of numbers, smallest first
Ascending(S) ==
    IF S = {} THEN <<>>
    ELSE LET lo == CHOOSE x \in S : \A y \in S : x <= y
             hi == CHOOSE x \in S : \A y \in S : x >= y
             In(x) == x \in S
         IN SelectSeq([i \in 1..(hi - lo + 1) |-> lo + i - 1], In)

Reverse(s) == [i \in 1..Len(s) |-> s[Len(s) + 1 - i]]

\* freq.keys(): a HashMap iterates its keys in an order the program does not
\* fix (RandomState).  Every order for up to MaxPermKeys keys, the ascending
\* and the descending one beyond that.
KeyOrders(S) ==
    IF Cardinality(S) <= MaxPermKeys
    THEN {s \in [1..Cardinality(S) -> S] : Injective(s)}
    ELSE LET asc == Ascending(S) IN {asc, Reverse(asc)}

\* the comparator of line 171, freq[b].cmp(&freq[a]): a is not after b
NotAfter(freq, a, b) == freq[a] >= freq[b]

\* sorted.sort_by(..): a stable sort, here by insertion: each key goes behind
\* every key already placed that the comparator does not put after it
sort_by(keys, freq) ==
    LET Place(s, i) ==
            LET k == Cardinality({j \in 1..Len(s) : NotAfter(freq, s[j], keys[i])})
            IN SubSeq(s, 1, k) \o <<keys[i]>> \o SubSeq(s, k + 1, Len(s))
    IN For(Place, <<>>, 1, Len(keys))

\* the rank orders count_frequencies can return for buf
count_frequencies(buf) ==
    LET freq == Freq(buf)
    IN {sort_by(keys, freq) : keys \in KeyOrders(DOMAIN freq)}

----------------------------------------------------------------------------
(* HuffmanTree, lines 77-149 *)

Leaf(b) == [leaf |-> TRUE, b |-> b]
Tree(t) == [leaf |-> FALSE, t |-> t]

\* from_sorted, lines 136-148.  The recursion takes bytes[0] and goes on with
\* bytes[1..] until two bytes are left; from fewer than two it reaches the
\* empty slice, where bytes[0] panics.  The levels are built here from the
\* innermost call outwards.
from_sorted(bytes) ==
    LET n == Len(bytes)
        Outer(t, k) == [left |-> bytes[n - 1 - k], right |-> Tree(t)]
    IN IF n < 2 THEN Panic(OOB)
       ELSE For(Outer, [left |-> bytes[n - 1], right |-> Leaf(bytes[n])], 1, n - 2)

\* collect_leaves, lines 96-102
collect_leaves(t) ==
    LET Level(s, i) ==
            IF s.done THEN s
            ELSE IF s.cur.right.leaf
                 THEN [cur |-> s.cur, done |-> TRUE,
                       out |-> s.out \o <<s.cur.left, s.cur.right.b>>]
                 ELSE [cur |-> s.cur.right.t, done |-> FALSE,
                       out |-> Append(s.out, s.cur.left)]
    IN Loop(Level, [cur |-> t, done |-> FALSE, out |-> <<>>], 1).out

\* serialize, lines 88-94: the count is cast to u8
serialize(t) ==
    LET leaves == collect_leaves(t)
    IN <<Len(leaves) % ByteMod>> \o leaves

\* build_map with a further bit pushed on the code of the leaf that ends the chain
build_map_extra_bit(t) ==
    LET Level(s, i) ==
            IF s.done THEN s
            ELSE LET m1 == Insert(s.map, s.cur.left, Append(s.code, FALSE))
                     code1 == Append(s.code, TRUE)
                 IN IF s.cur.right.leaf
                    THEN [cur |-> s.cur, code |-> code1, done |-> TRUE,
                          map |-> Insert(m1, s.cur.right.b, Append(code1, TRUE))]
                    ELSE [cur |-> s.cur.right.t, code |-> code1, done |-> FALSE,
                          map |-> m1]
    IN Loop(Level, [cur |-> t, code |-> <<>>, done |-> FALSE, map |-> EmptyMap], 1).map

\* build_map, lines 104-124: one round of the loop per level, code being the
\* prefix carried into the level
build_map(t) ==
    LET Level(s, i) ==
            IF s.done THEN s
            ELSE LET m1 == Insert(s.map, s.cur.left, Append(s.code, FALSE))
                     code1 == Append(s.code, TRUE)
                 IN IF s.cur.right.leaf
                    THEN [cur |-> s.cur, code |-> code1, done |-> TRUE,
                          map |-> Insert(m1, s.cur.right.b, code1)]
                    ELSE [cur |-> s.cur.right.t, code |-> code1, done |-> FALSE,
                          map |-> m1]
    IN Loop(Level, [cur |-> t, code |-> <<>>, done |-> FALSE, map |-> EmptyMap], 1).map

----------------------------------------------------------------------------
(* Encoded::from_bits, lines 8-29 *)

\* byte |= 1 << k
SetBit(byte, k) == IF (byte \div Pow2(k)) % 2 = 1 THEN byte ELSE byte + Pow2(k)

\* the inner loop with the bits placed from the low end: 1 << i
PackChunkLsbFirst(chunk) ==
    LET Bit(byte, i) == IF chunk[i + 1] THEN SetBit(byte, i) ELSE byte
    IN For(Bit, 0, 0, Len(chunk) - 1)

\* the inner loop, lines 16-21
PackChunk(chunk) ==
    LET Bit(byte, i) == IF chunk[i + 1] THEN SetBit(byte, ByteBits - 1 - i) ELSE byte
    IN For(Bit, 0, 0, Len(chunk) - 1)

\* bits.chunks_exact(8): the short last chunk is left out
ChunksExact(bs) ==
    [c \in 1..(Len(bs) \div ByteBits) |-> SubSeq(bs, ByteBits * (c - 1) + 1, ByteBits * c)]

\* bits.chunks(8)
Chunks(bs) ==
    [c \in 1..((Len(bs) + ByteBits - 1) \div ByteBits) |->
        SubSeq(bs, ByteBits * (c - 1) + 1, Min(ByteBits * c, Len(bs)))]

from_bits(bs, tr) ==
    LET padding == IF Len(bs) % ByteBits = 0 THEN 0 ELSE ByteBits - (Len(bs) % ByteBits)
        chunks == Chunks(bs)
    IN [tree |-> tr,
        bytes |-> [c \in 1..Len(chunks) |-> PackChunk(chunks[c])],
        padding |-> padding]

\* HuffmanTree::encode, lines 126-134
HuffmanTree_encode(t, buf) ==
    LET m == build_map(t)
        Code(s, i) ==
            IF IsPanic(s) THEN s
            ELSE IF buf[i] \notin DOMAIN m THEN Panic(NotInTree)
                 ELSE [bits |-> s.bits \o m[buf[i]]]
        r == For(Code, [bits |-> <<>>], 1, Len(buf))
    IN IF IsPanic(r) THEN r ELSE from_bits(r.bits, serialize(t))

----------------------------------------------------------------------------
(* Encoded::to_bytes / from_bytes / decode, lines 31-74 *)

to_bytes(e) == <<e.padding>> \o e.tree \o e.bytes

from_bytes(d) ==
    IF Len(d) < 2 THEN Panic(OOB)
    ELSE LET tree_len == d[2]
             tree_end == 2 + tree_len
         IN IF tree_end > Len(d) THEN Panic(SliceOOB)
            ELSE [tree |-> SubSeq(d, 2, tree_end),
                  bytes |-> SubSeq(d, tree_end + 1, Len(d)),
                  padding |-> d[1]]

\* (self.bytes[byte_idx] >> bit_idx) & 1 == 1, lines 57-59
BitAt(bytes, i) ==
    (bytes[(i \div ByteBits) + 1] \div Pow2(ByteBits - 1 - (i % ByteBits))) % 2 = 1

\* the two build profiles: overflow checks on (debug) or off (release)
Builds == {"debug", "release"}

\* Encoded::decode, lines 51-74.  bytes.len() * 8 - padding is a usize
\* subtraction: below zero it panics in a debug build and wraps in a release
\* build, where the loop then indexes past the end of bytes and panics.
Encoded_decode(e, build) ==
    IF Len(e.tree) = 0 THEN Panic(SliceOOB)
    ELSE LET t == from_sorted(Tail(e.tree))
             total_bits == Len(e.bytes) * ByteBits - e.padding
             Step(s, i) ==
                 IF ~BitAt(e.bytes, i)
                 THEN [out |-> Append(s.out, s.current.left), current |-> t]
                 ELSE IF s.current.right.leaf
                      THEN [out |-> Append(s.out, s.current.right.b), current |-> t]
                      ELSE [out |-> s.out, current |-> s.current.right.t]
         IN IF IsPanic(t) THEN t
            ELSE IF total_bits < 0
                 THEN (IF build = "debug" THEN Panic(SubOverflow) ELSE Panic(OOB))
                 ELSE For(Step, [out |-> <<>>, current |-> t], 0, total_bits - 1)

----------------------------------------------------------------------------
(* Inputs *)

\* tests::round_trip_repetitive_data, line 190: 20 x 'a' then 'b'
Skewed == [i \in 1..21 |-> IF i <= 20 THEN 97 ELSE 98]
\* tests::round_trip_varied_data, line 196: "abcdefghijabcdefghij"
Uniform == [i \in 1..20 |-> 97 + ((i - 1) % 10)]
\* one of every byte value
AllBytes == [i \in 1..ByteMod |-> i - 1]

Buffers == SeqsUpTo(Alphabet, MaxLen) \cup {Skewed, Uniform, AllBytes}

\* rank orders: every order of 2 or more symbols of the alphabet, and one of
\* all 256 byte values
RankOrders ==
    {o \in SeqsUpTo(Alphabet, NumSyms) : Len(o) >= 2 /\ Injective(o)} \cup {AllBytes}

\* what serialize returns for the trees of these rank orders
SerializedTrees == {serialize(from_sorted(o)) : o \in RankOrders}

\* packed data bytes: 00000000, 10101010, 11111111
DataBytes == {0, 170, 255}

\* the Encoded values handed to to_bytes on its own
Containers ==
    [padding : 0..(ByteBits - 1), tree : SerializedTrees, bytes : SeqsUpTo(DataBytes, MaxData)]

\* the bytes of the buffers handed to from_bytes on its own
RawBytes == {0, 2, 3, 97, 255}
RawWires == SeqsUpTo(RawBytes, MaxWire)

BitSeqs == SeqsUpTo(BOOLEAN, MaxBits)
TreeArgs == {<<>>, <<2, 97, 98>>}

----------------------------------------------------------------------------
(* State machine: `encode` (lines 151-155) followed by `decode` (157-159) *)

Null == [null |-> TRUE]
IsNull(v) == "null" \in DOMAIN v

\* fault: which call panicked, and the panic's message
NoFault == [op |-> "none", msg |-> "none"]

Init ==
    /\ pc = "start"
    /\ data \in Buffers
    /\ sorted = <<>> /\ tree = Null /\ map = EmptyMap
    /\ enc = Null /\ wire = <<>> /\ parsed = Null /\ out = <<>>
    /\ current = Null /\ fault = NoFault /\ prev = Null /\ bits = <<>>

\* let sorted = count_frequencies(data), line 152
CountFrequencies ==
    /\ pc = "start"
    /\ \E s \in count_frequencies(data) : sorted' = s
    /\ pc' = "ranked"
    /\ UNCHANGED <<data, tree, map, enc, wire, parsed, out, current, fault, prev, bits>>

\* let tree = HuffmanTree::from_sorted(&sorted), line 153
FromSorted ==
    /\ pc = "ranked"
    /\ LET t == from_sorted(sorted)
       IN IF IsPanic(t)
          THEN pc' = "panic" /\ fault' = [op |-> "from_sorted", msg |-> t.panic]
               /\ UNCHANGED tree
          ELSE pc' = "built" /\ tree' = t /\ UNCHANGED fault
    /\ UNCHANGED <<data, sorted, map, enc, wire, parsed, out, current, prev, bits>>

\* tree.encode(data), line 154 (build_map, the coding loop, from_bits, serialize)
TreeEncode ==
    /\ pc = "built"
    /\ LET e == HuffmanTree_encode(tree, data)
       IN IF IsPanic(e)
          THEN pc' = "panic" /\ fault' = [op |-> "encode", msg |-> e.panic]
               /\ UNCHANGED <<map, enc>>
          ELSE pc' = "encoded" /\ map' = build_map(tree) /\ enc' = e /\ UNCHANGED fault
    /\ UNCHANGED <<data, sorted, tree, wire, parsed, out, current, prev, bits>>

\* .to_bytes(), line 154
ToBytes ==
    /\ pc = "encoded"
    /\ wire' = to_bytes(enc)
    /\ pc' = "wire"
    /\ UNCHANGED <<data, sorted, tree, map, enc, parsed, out, current, fault, prev, bits>>

\* Encoded::from_bytes(data), line 158
FromBytes ==
    /\ pc = "wire"
    /\ LET p == from_bytes(wire)
       IN IF IsPanic(p)
          THEN pc' = "panic" /\ fault' = [op |-> "from_bytes", msg |-> p.panic]
               /\ UNCHANGED parsed
          ELSE pc' = "parsed" /\ parsed' = p /\ UNCHANGED fault
    /\ UNCHANGED <<data, sorted, tree, map, enc, wire, out, current, prev, bits>>

\* .decode(), line 158
Decode ==
    /\ pc = "parsed"
    /\ \E build \in Builds :
        LET r == Encoded_decode(parsed, build)
        IN IF IsPanic(r)
           THEN pc' = "panic" /\ fault' = [op |-> "decode", msg |-> r.panic]
                /\ UNCHANGED <<out, current>>
           ELSE pc' = "decoded" /\ out' = r.out /\ current' = r.current
                /\ UNCHANGED fault
    /\ UNCHANGED <<data, sorted, tree, map, enc, wire, parsed, prev, bits>>

\* a second call of encode on the same buffer; prev keeps what the first returned
Rerun ==
    /\ pc = "wire"
    /\ prev = Null
    /\ prev' = [sorted |-> sorted, wire |-> wire]
    /\ pc' = "start"
    /\ sorted' = <<>> /\ tree' = Null /\ map' = EmptyMap /\ enc' = Null /\ wire' = <<>>
    /\ UNCHANGED <<data, parsed, out, current, fault, bits>>

Next ==
    \/ CountFrequencies
    \/ FromSorted
    \/ TreeEncode
    \/ ToBytes
    \/ FromBytes
    \/ Decode
    \/ Rerun

Spec == Init /\ [][Next]_vars

----------------------------------------------------------------------------
(* The container codec on its own: to_bytes of any Encoded, from_bytes and  *)
(* decode of any buffer                                                     *)

InitCodec ==
    /\ \/ pc = "encoded" /\ enc \in Containers /\ wire = <<>>
       \/ pc = "wire" /\ enc = Null /\ wire \in RawWires
    /\ data = <<>> /\ sorted = <<>> /\ tree = Null /\ map = EmptyMap
    /\ parsed = Null /\ out = <<>>
    /\ current = Null /\ fault = NoFault /\ prev = Null /\ bits = <<>>

NextCodec ==
    \/ ToBytes
    \/ FromBytes
    \/ Decode

SpecCodec == InitCodec /\ [][NextCodec]_vars

----------------------------------------------------------------------------
(* The bit packer on its own: from_bits of any bit sequence *)

InitBits ==
    /\ pc = "bits"
    /\ bits \in BitSeqs
    /\ data = <<>> /\ sorted = <<>> /\ tree = Null /\ map = EmptyMap
    /\ enc = Null /\ wire = <<>> /\ parsed = Null /\ out = <<>>
    /\ current = Null /\ fault = NoFault /\ prev = Null

\* Encoded::from_bits(&bits, tree), line 133
FromBits ==
    /\ pc = "bits"
    /\ \E tr \in TreeArgs : enc' = from_bits(bits, tr)
    /\ pc' = "packed"
    /\ UNCHANGED <<data, sorted, tree, map, wire, parsed, out, current, fault, prev, bits>>

NextBits == FromBits

SpecBits == InitBits /\ [][NextBits]_vars

----------------------------------------------------------------------------
(* Properties *)

\* how often b occurs in buf
Occurrences(buf, b) == Cardinality({i \in 1..Len(buf) : buf[i] = b})

\* a function written out as a table
Table(f) == f @@ <<>>

CeilDiv(a, b) == (a + b - 1) \div b

Ones(k) == [i \in 1..k |-> TRUE]

IsPrefix(c, d) == Len(c) <= Len(d) /\ SubSeq(d, 1, Len(c)) = c

\* bit k (0 = least significant) of a byte
BitOfByte(byte, k) == (byte \div Pow2(k)) % 2 = 1

\* encode has returned a container
Encoded_ok == pc \in {"wire", "parsed", "decoded"}
              \/ (pc = "panic" /\ fault.op \in {"from_bytes", "decode"})

\* T of buf: the sum over its symbols of count * codeword length, the symbols
\* ranked by descending count and, among equal counts, by ascending value;
\* rank k has length k, the last rank n has length n - 1
TotalBits(buf) ==
    LET syms == Range(buf)
        occ == Table([b \in syms |-> Occurrences(buf, b)])
        rank == [b \in syms |->
                    1 + Cardinality({c \in syms :
                            occ[c] > occ[b] \/ (occ[c] = occ[b] /\ c < b)})]
        order == Ascending(syms)
        Add(sum, k) == sum + occ[order[k]] * rank[order[k]]
        least == CHOOSE b \in syms : rank[b] = Cardinality(syms)
    IN For(Add, 0, 1, Len(order)) - occ[least]

\* C1: for every buffer with at least 2 distinct byte values, decode(encode(buf))
\* returns a buffer equal to buf
C1_RoundTrip ==
    (Cardinality(Range(data)) >= 2 /\ pc \in {"decoded", "panic"})
        => (pc = "decoded" /\ out = data)

\* C2: building the tree from a rank order of fewer than 2 entries ends in the
\* InsufficientSymbols error, never in an out-of-bounds index
C2_InsufficientSymbols ==
    (Len(sorted) < 2 /\ pc \notin {"start", "ranked"})
        => (pc # "panic" /\ fault.msg = "InsufficientSymbols")

\* C3: two runs of count_frequencies and of encode on the same buffer return the
\* same rank order and the same container bytes
C3_Deterministic ==
    /\ (~IsNull(prev) /\ pc # "start") => sorted = prev.sorted
    /\ (~IsNull(prev) /\ Encoded_ok) => wire = prev.wire

\* C4: from_bytes(to_bytes(e)) returns padding, tree and bytes identical to those
\* of e, for every padding in 0..7, every serialized tree of 2 to 256 leaves and
\* every packed data
C4_ContainerRoundTrip ==
    (~IsNull(enc) /\ pc \notin {"encoded", "wire"})
        => (~IsNull(parsed) /\ parsed = enc)

\* C5: the container of a buffer with n distinct values, 2 <= n <= 256, holds n at
\* index 1, then the n distinct values in descending order of count, then the
\* packed data
C5_CountByte ==
    LET n == Cardinality(Range(data))
    IN (Encoded_ok /\ n >= 2 /\ n <= ByteMod)
        => /\ Len(wire) >= 2 + n
           /\ wire[2] = n
           /\ wire[2] = Len(enc.tree) - 1
           /\ Range(SubSeq(wire, 3, n + 2)) = Range(data)
           /\ \A k \in 3..(n + 1) :
                Occurrences(data, wire[k]) >= Occurrences(data, wire[k + 1])
           /\ SubSeq(wire, n + 3, Len(wire)) = enc.bytes

\* C6: from_bytes of a buffer shorter than 2 + symbolCount ends in the
\* MalformedContainer error returned to the caller, not in a panic
C6_MalformedContainer ==
    (pc \notin {"encoded", "wire"} /\ (Len(wire) < 2 \/ Len(wire) < 2 + wire[2]))
        => (pc # "panic" /\ IsNull(parsed) /\ fault.msg = "MalformedContainer")

\* C7: decode never returns successfully when the data bits end in the middle of
\* a codeword (the walk is not back at the root of the tree)
C7_TruncatedBitstream ==
    pc = "decoded" => current = from_sorted(Tail(parsed.tree))

\* C8: the packed data of encode(buf) has exactly ceil(T/8) bytes, whatever the
\* order of equal counts; 3 bytes (container 7) for the skewed test buffer and
\* fewer than 20 for the uniform one
C8_PackedLength ==
    (~IsNull(enc) /\ Cardinality(Range(data)) >= 2)
        => /\ Len(enc.bytes) = CeilDiv(TotalBits(data), ByteBits)
           /\ data = Skewed => (Len(enc.bytes) = 3 /\ (Encoded_ok => Len(wire) = 7))
           /\ data = Uniform => Len(enc.bytes) < Len(data)

C8_Witness ==
    /\ pc = "wire" /\ data = Uniform
    /\ sorted[1] = 106
    /\ Len(enc.bytes) = 14

\* C9: the table build_map returns for the tree of a rank order of n >= 2 symbols
\* has n entries; rank k < n has k - 1 one-bits then a zero-bit, rank n has n - 1
\* one-bits, and no codeword is a prefix of another
C9_CodeTable ==
    LET n == Len(sorted)
    IN pc = "encoded"
        => /\ n >= 2
           /\ DOMAIN map = Range(sorted)
           /\ Cardinality(DOMAIN map) = n
           /\ \A k \in 1..(n - 1) : map[sorted[k]] = Append(Ones(k - 1), FALSE)
           /\ map[sorted[n]] = Ones(n - 1)
           /\ Len(map[sorted[n]]) = Len(map[sorted[n - 1]])
           /\ \A a, b \in DOMAIN map : a # b => ~IsPrefix(map[a], map[b])

C9_Witness ==
    /\ pc = "encoded" /\ Len(sorted) = 3
    /\ map[sorted[2]] = <<TRUE, FALSE>>
    /\ map[sorted[3]] = <<TRUE, TRUE>>

\* C10: from_bits returns padding = (8 - len mod 8) mod 8 and ceil(len/8) bytes
\* with bit i of the input at bit 7 - i mod 8 of byte i div 8; the padding bits
\* of the last byte are zero
C10_FromBits ==
    LET len == Len(bits)
    IN pc = "packed"
        => /\ enc.padding = (ByteBits - (len % ByteBits)) % ByteBits
           /\ enc.padding \in 0..(ByteBits - 1)
           /\ Len(enc.bytes) = CeilDiv(len, ByteBits)
           /\ \A i \in 0..(len - 1) :
                BitOfByte(enc.bytes[(i \div ByteBits) + 1], ByteBits - 1 - (i % ByteBits))
                    = bits[i + 1]
           /\ ByteBits * Len(enc.bytes) = len + enc.padding
           /\ \A i \in len..(ByteBits * Len(enc.bytes) - 1) :
                ~BitOfByte(enc.bytes[(i \div ByteBits) + 1], ByteBits - 1 - (i % ByteBits))

C10_Witness ==
    /\ pc = "packed" /\ Len(bits) = 9 /\ bits[9]
    /\ enc.padding = 7
    /\ enc.bytes[2] = 128

====
